---- MODULE Spec2Model ----
(***************************************************************************)
(* Model of regions.core.mask.Mask: a dense 2D weight array located by an  *)
(* integer bounding box, with the operations _overlap_slices, to_image,    *)
(* cutout and multiply.                                                    *)
(*                                                                         *)
(* Numbers are fixed-point: an integer v stands for the real v / Scale.    *)
(* An element of an "int" array is always a multiple of Scale.  The        *)
(* elements of a product (multiply) are in units of 1 / (Scale * Scale).   *)
(***************************************************************************)
EXTENDS Integers, Sequences, FiniteSets, TLC

VARIABLES self,   \* the Mask object: [data, bbox]
          last,   \* the call in progress / just made and its outcome
          seen    \* history: the first to_image call made (when tracked)

vars == <<self, last, seen>>

\* ---------------------------------------------------------------- bounds
MaxNeg == 3      \* bounding box extents range over -MaxNeg .. MaxCoord
MaxCoord == 3
MaxDim == 4      \* target / data shapes range over 1 .. MaxDim per axis
SeqNeg == 1      \* the same, for the call-sequence specification
SeqCoord == 1

Scale == 2       \* fixed-point denominator (halves)

\* ------------------------------------------------------- python builtins
max(a, b) == IF a >= b THEN a ELSE b

min(a, b) == IF a <= b THEN a ELSE b

slice(a, b) == [start |-> a, stop |-> b]

None == << >>

\* slice.indices(n) for a step of 1: negative bounds count from the end,
\* and both bounds are clipped to 0 .. n
slice_indices(s, n) ==
    LET norm(k) == IF k < 0 THEN max(k + n, 0) ELSE min(k, n)
    IN  [start |-> norm(s.start), stop |-> norm(s.stop)]

slice_len(s) == max(s.stop - s.start, 0)

\* ------------------------------------------------------- host array rules
NoArr == [shape |-> <<0, 0>>, dtype |-> "none", unit |-> "none",
          el |-> [p \in {} |-> 0]]

Index(h, w) == (0 .. (h - 1)) \X (0 .. (w - 1))

\* conversion of a value to an element of the given dtype: integers
\* truncate toward zero
astype(dtype, v) ==
    IF dtype = "int"
    THEN IF v >= 0 THEN v - (v % Scale) ELSE -((-v) - ((-v) % Scale))
    ELSE v

np_zeros(shape, dtype) ==
    [shape |-> shape, dtype |-> dtype, unit |-> "none",
     el |-> [p \in Index(shape[1], shape[2]) |-> 0]]

\* a[sl] for a pair of slices: a view with the clipped extents
np_getitem(a, sl) ==
    LET ys == slice_indices(sl[1], a.shape[1])
        xs == slice_indices(sl[2], a.shape[2])
        h == slice_len(ys)
        w == slice_len(xs)
    IN  [shape |-> <<h, w>>, dtype |-> a.dtype, unit |-> a.unit,
         el |-> [p \in Index(h, w) |->
                    a.el[<<ys.start + p[1], xs.start + p[2]>>]]]

\* a[sl] = v for an array v: v is broadcast to the shape of a[sl] (an axis
\* of length 1 stretches to any length, 0 included); any other mismatch
\* raises ValueError and writes nothing
np_setitem(a, sl, v) ==
    LET ys == slice_indices(sl[1], a.shape[1])
        xs == slice_indices(sl[2], a.shape[2])
        h == slice_len(ys)
        w == slice_len(xs)
        vh == v.shape[1]
        vw == v.shape[2]
        ok == (vh = h \/ vh = 1) /\ (vw = w \/ vw = 1)
        inside(p) == /\ ys.start <= p[1] /\ p[1] < ys.start + h
                     /\ xs.start <= p[2] /\ p[2] < xs.start + w
        src(p) == <<IF vh = 1 THEN 0 ELSE p[1] - ys.start,
                    IF vw = 1 THEN 0 ELSE p[2] - xs.start>>
    IN  IF ~ok
        THEN [raised |-> TRUE, arr |-> a]
        ELSE [raised |-> FALSE,
              arr |-> [a EXCEPT !.el =
                          [p \in DOMAIN a.el |->
                              IF inside(p) THEN astype(a.dtype, v.el[src(p)])
                                           ELSE a.el[p]]]]

\* a[:] = scalar
np_fill(a, v) ==
    [a EXCEPT !.el = [p \in DOMAIN a.el |-> astype(a.dtype, v)]]

\* astropy Quantity(a, unit=unit): tags the values, integers become floats
Quantity(a, unit) == [a EXCEPT !.dtype = "float", !.unit = unit]

\* a * b elementwise for arrays of equal shape; the product is a float
\* array carrying a's unit
np_multiply(a, b) ==
    [shape |-> a.shape, dtype |-> "float", unit |-> a.unit,
     el |-> [p \in DOMAIN a.el |-> a.el[p] * b.el[p]]]

\* ------------------------------------------------------------ BoundingBox
bbox_shape(b) == <<b.iymax - b.iymin, b.ixmax - b.ixmin>>

bbox_slices(b) == <<slice(b.iymin, b.iymax), slice(b.ixmin, b.ixmax)>>

\* ------------------------------------------------- outcomes of one call
Returned(arr, obj) ==
    [kind |-> "array", exc |-> "", arr |-> arr,
     large |-> None, small |-> None, self |-> obj]

ReturnedNone(obj) ==
    [kind |-> "None", exc |-> "", arr |-> NoArr,
     large |-> None, small |-> None, self |-> obj]

ReturnedSlices(large, small, obj) ==
    [kind |-> "slices", exc |-> "", arr |-> NoArr,
     large |-> large, small |-> small, self |-> obj]

Raised(exc, obj) ==
    [kind |-> "raise", exc |-> exc, arr |-> NoArr,
     large |-> None, small |-> None, self |-> obj]

\* --------------------------------------------------------------- Mask
\* Mask._overlap_slices with the comparison of xmax weakened
overlap_slices_strict(obj, shape) ==
    IF Len(shape) # 2
    THEN Raised("ValueError", obj)
    ELSE LET xmin == obj.bbox.ixmin
             xmax == obj.bbox.ixmax
             ymin == obj.bbox.iymin
             ymax == obj.bbox.iymax
         IN  IF xmin >= shape[2] \/ ymin >= shape[1] \/ xmax < 0 \/ ymax <= 0
             THEN ReturnedSlices(None, None, obj)
             ELSE ReturnedSlices(
                      <<slice(max(ymin, 0), min(ymax, shape[1])),
                        slice(max(xmin, 0), min(xmax, shape[2]))>>,
                      <<slice(max(-ymin, 0),
                              min(ymax - ymin, shape[1] - ymin)),
                        slice(max(-xmin, 0),
                              min(xmax - xmin, shape[2] - xmin))>>,
                      obj)

\* Mask._overlap_slices with the small stop not shifted into the local frame
overlap_slices_unshifted(obj, shape) ==
    IF Len(shape) # 2
    THEN Raised("ValueError", obj)
    ELSE LET xmin == obj.bbox.ixmin
             xmax == obj.bbox.ixmax
             ymin == obj.bbox.iymin
             ymax == obj.bbox.iymax
         IN  IF xmin >= shape[2] \/ ymin >= shape[1] \/ xmax <= 0 \/ ymax <= 0
             THEN ReturnedSlices(None, None, obj)
             ELSE ReturnedSlices(
                      <<slice(max(ymin, 0), min(ymax, shape[1])),
                        slice(max(xmin, 0), min(xmax, shape[2]))>>,
                      <<slice(max(-ymin, 0),
                              min(ymax - ymin, shape[1])),
                        slice(max(-xmin, 0),
                              min(xmax - xmin, shape[2]))>>,
                      obj)

\* Mask._overlap_slices with the large stop clipped one short
overlap_slices_short(obj, shape) ==
    IF Len(shape) # 2
    THEN Raised("ValueError", obj)
    ELSE LET xmin == obj.bbox.ixmin
             xmax == obj.bbox.ixmax
             ymin == obj.bbox.iymin
             ymax == obj.bbox.iymax
         IN  IF xmin >= shape[2] \/ ymin >= shape[1] \/ xmax <= 0 \/ ymax <= 0
             THEN ReturnedSlices(None, None, obj)
             ELSE ReturnedSlices(
                      <<slice(max(ymin, 0), min(ymax, shape[1] - 1)),
                        slice(max(xmin, 0), min(xmax, shape[2] - 1))>>,
                      <<slice(max(-ymin, 0),
                              min(ymax - ymin, shape[1] - ymin)),
                        slice(max(-xmin, 0),
                              min(xmax - xmin, shape[2] - xmin))>>,
                      obj)

_overlap_slices(obj, shape) ==
    IF Len(shape) # 2
    THEN Raised("ValueError", obj)
    ELSE LET xmin == obj.bbox.ixmin
             xmax == obj.bbox.ixmax
             ymin == obj.bbox.iymin
             ymax == obj.bbox.iymax
         IN  IF xmin >= shape[2] \/ ymin >= shape[1] \/ xmax <= 0 \/ ymax <= 0
             THEN ReturnedSlices(None, None, obj)
             ELSE ReturnedSlices(
                      <<slice(max(ymin, 0), min(ymax, shape[1])),
                        slice(max(xmin, 0), min(xmax, shape[2]))>>,
                      <<slice(max(-ymin, 0),
                              min(ymax - ymin, shape[1] - ymin)),
                        slice(max(-xmin, 0),
                              min(xmax - xmin, shape[2] - xmin))>>,
                      obj)

\* to_image, the except branch: placement through _overlap_slices
to_image_fallback(obj, shape) ==
    LET ov == _overlap_slices(obj, shape)
    IN  IF ov.kind = "raise"
        THEN ov
        ELSE IF ov.small = None
        THEN ReturnedNone(obj)
        ELSE LET mask == np_zeros(shape, "float")
                 put == np_setitem(mask, ov.large,
                                   np_getitem(obj.data, ov.small))
             IN  IF put.raised THEN Raised("ValueError", obj)
                               ELSE Returned(put.arr, obj)

\* to_image, the try branch: placement at the bounding box's own slices
to_image_direct(obj, shape) ==
    LET mask == np_zeros(shape, "float")
        put == np_setitem(mask, bbox_slices(obj.bbox), obj.data)
    IN  IF put.raised THEN Raised("ValueError", obj)
                      ELSE Returned(put.arr, obj)

\* to_image with the except branch writing at the mask's local slices
to_image_swapped(obj, shape) ==
    IF Len(shape) # 2
    THEN Raised("ValueError", obj)
    ELSE LET direct == to_image_direct(obj, shape)
             ov == _overlap_slices(obj, shape)
             put == np_setitem(np_zeros(shape, "float"), ov.small,
                               np_getitem(obj.data, ov.small))
         IN  IF direct.kind # "raise"
             THEN direct
             ELSE IF ov.small = None
             THEN ReturnedNone(obj)
             ELSE IF put.raised THEN Raised("ValueError", obj)
                                ELSE Returned(put.arr, obj)

to_image(obj, shape) ==
    IF Len(shape) # 2
    THEN Raised("ValueError", obj)
    ELSE LET direct == to_image_direct(obj, shape)
         IN  IF direct.kind # "raise"
             THEN direct
             ELSE to_image_fallback(obj, shape)

\* cutout, the shape-mismatch branch: fill, then copy of the overlap
cutout_fallback(obj, data, fill_value) ==
    LET ov == _overlap_slices(obj, data.shape)
    IN  IF ov.kind = "raise"
        THEN ov
        ELSE IF ov.small = None
        THEN ReturnedNone(obj)
        ELSE LET zeros == np_zeros(obj.data.shape, data.dtype)
                 filled == np_fill(zeros, fill_value)
                 put == np_setitem(filled, ov.small,
                                   np_getitem(data, ov.large))
             IN  IF put.raised
                 THEN Raised("ValueError", obj)
                 ELSE IF data.unit # "none"
                 THEN Returned(Quantity(put.arr, data.unit), obj)
                 ELSE Returned(put.arr, obj)

\* cutout, the direct slice of data at the bounding box's own slices
cutout_direct(obj, data) == np_getitem(data, bbox_slices(obj.bbox))

\* cutout with the fill written into the mask's own array
cutout_aliased(obj, data, fill_value) ==
    LET cut == cutout_direct(obj, data)
        res == cutout_fallback(obj, data, fill_value)
    IN  IF cut.shape # obj.data.shape
        THEN IF res.kind = "array"
             THEN [res EXCEPT !.self =
                      [obj EXCEPT !.data = np_fill(obj.data, fill_value)]]
             ELSE res
        ELSE Returned(cut, obj)

cutout(obj, data, fill_value) ==
    LET cut == cutout_direct(obj, data)
    IN  IF cut.shape # obj.data.shape
        THEN cutout_fallback(obj, data, fill_value)
        ELSE Returned(cut, obj)

multiply(obj, data, fill_value) ==
    LET cut == cutout(obj, data, fill_value)
    IN  IF cut.kind = "raise"
        THEN cut
        ELSE IF cut.kind = "None"
        THEN Raised("TypeError", cut.self)
        ELSE Returned(np_multiply(cut.arr, cut.self.data), cut.self)

\* Mask.__init__: the data and the bounding box must agree in shape
Mask(data, bbox) ==
    IF data.shape # bbox_shape(bbox)
    THEN Raised("ValueError", NoArr)
    ELSE Returned(NoArr, [data |-> data, bbox |-> bbox])

\* ------------------------------------------------------------- inputs
\* bounding boxes with extents in -neg .. pos; ixmax > ixmin, iymax > iymin
Boxes(neg, pos) ==
    {b \in [ixmin : (-neg) .. pos, ixmax : (-neg) .. pos,
            iymin : (-neg) .. pos, iymax : (-neg) .. pos] :
        b.ixmax > b.ixmin /\ b.iymax > b.iymin}

\* the weight array a geometry function hands over for a box of the given
\* shape: every element differs from its neighbours
Weights(shape) ==
    [shape |-> shape, dtype |-> "float", unit |-> "none",
     el |-> [p \in Index(shape[1], shape[2]) |->
                1 + p[1] * shape[2] + p[2]]]

\* the masks that construction accepts
Masks(neg, pos) ==
    {m.self : m \in {c \in {Mask(Weights(bbox_shape(d)), b) :
                                d \in Boxes(neg, pos), b \in Boxes(neg, pos)} :
                        c.kind # "raise"}}

Shapes2D == (1 .. MaxDim) \X (1 .. MaxDim)

Shapes == Shapes2D \cup {<<MaxDim>>, <<1, 1, 1>>}

DataKinds == {<<"int", "none">>, <<"float", "none">>, <<"float", "Jy">>}

\* a 2D data array: integers for "int", odd halves for "float"
Data(shape, kind) ==
    [shape |-> shape, dtype |-> kind[1], unit |-> kind[2],
     el |-> [p \in Index(shape[1], shape[2]) |->
                Scale * (10 * (p[1] + 1) + p[2] + 1)
                    + (IF kind[1] = "float" THEN 1 ELSE 0)]]

DataArrays == {Data(s, k) : s \in Shapes2D, k \in DataKinds}

\* 0, 4.5 and 9
FillValues == {0, 9, 18}

\* ------------------------------------------------------ state machine
NoOut == [kind |-> "none", exc |-> "", arr |-> NoArr,
          large |-> None, small |-> None]

Outcome(out) == [kind |-> out.kind, exc |-> out.exc, arr |-> out.arr,
                 large |-> out.large, small |-> out.small]

Call(op, shape, data, fill_value, out) ==
    [op |-> op, shape |-> shape, data |-> data, fill |-> fill_value,
     out |-> Outcome(out)]

Idle == [op |-> "idle", shape |-> None, data |-> NoArr, fill |-> 0,
         out |-> NoOut]

\* the history of a call sequence: the first to_image call, whether any
\* other call followed it, and whether to_image was then called again
\* with the same shape
NotTracked == [op |-> "untracked", shape |-> None, out |-> NoOut,
               between |-> FALSE, again |-> FALSE]

Nothing == [op |-> "nothing", shape |-> None, out |-> NoOut,
            between |-> FALSE, again |-> FALSE]

Track(op, shape, out) ==
    IF seen = NotTracked
    THEN seen
    ELSE IF seen = Nothing
    THEN IF op = "to_image"
         THEN [op |-> op, shape |-> shape, out |-> Outcome(out),
               between |-> FALSE, again |-> FALSE]
         ELSE seen
    ELSE IF op = "to_image"
    THEN IF shape = seen.shape /\ seen.between
         THEN [seen EXCEPT !.again = TRUE]
         ELSE seen
    ELSE [seen EXCEPT !.between = TRUE]

Init ==
    /\ self \in Masks(MaxNeg, MaxCoord)
    /\ last = Idle
    /\ seen = NotTracked

InitSeq ==
    /\ self \in Masks(SeqNeg, SeqCoord)
    /\ last = Idle
    /\ seen = Nothing

Call_overlap_slices ==
    /\ last.op = "idle"
    /\ \E shape \in Shapes :
          LET out == _overlap_slices(self, shape)
          IN  /\ self' = out.self
              /\ last' = Call("_overlap_slices", shape, NoArr, 0, out)
              /\ seen' = Track("_overlap_slices", shape, out)

Call_to_image ==
    /\ last.op = "idle"
    /\ \E shape \in Shapes :
          LET out == to_image(self, shape)
          IN  /\ self' = out.self
              /\ last' = Call("to_image", shape, NoArr, 0, out)
              /\ seen' = Track("to_image", shape, out)

Call_cutout ==
    /\ last.op = "idle"
    /\ \E data \in DataArrays, fill_value \in FillValues :
          LET out == cutout(self, data, fill_value)
          IN  /\ self' = out.self
              /\ last' = Call("cutout", None, data, fill_value, out)
              /\ seen' = Track("cutout", None, out)

Call_multiply ==
    /\ last.op = "idle"
    /\ \E data \in DataArrays, fill_value \in FillValues :
          LET out == multiply(self, data, fill_value)
          IN  /\ self' = out.self
              /\ last' = Call("multiply", None, data, fill_value, out)
              /\ seen' = Track("multiply", None, out)

\* the caller takes the outcome; the object is ready for the next call
Return ==
    /\ last.op # "idle"
    /\ last' = Idle
    /\ UNCHANGED <<self, seen>>

Next ==
    \/ Call_overlap_slices
    \/ Call_to_image
    \/ Call_cutout
    \/ Call_multiply
    \/ Return

Spec == Init /\ [][Next]_vars

SpecSeq == InitSeq /\ [][Next]_vars

\* ------------------------------------------------------------ properties
Box == self.bbox

\* the four-inequality test: the box lies entirely outside [0,W) x [0,H)
Outside(b, shape) ==
    b.ixmin >= shape[2] \/ b.iymin >= shape[1] \/ b.ixmax <= 0 \/ b.iymax <= 0

\* 0 <= ixmin < ixmax <= W and 0 <= iymin < iymax <= H
FullyInside(b, shape) ==
    /\ 0 <= b.ixmin /\ b.ixmax <= shape[2]
    /\ 0 <= b.iymin /\ b.iymax <= shape[1]

Called(op) == last.op = op

\* C1: multiply on data that the bounding box does not intersect returns
\* None; it does not raise
C1_MultiplyNoOverlapIsNone ==
    (Called("multiply") /\ Outside(Box, last.data.shape))
        => last.out.kind = "None"

\* C2: to_image on a 2D shape that the bounding box lies entirely outside
\* returns None, never an array
C2_ToImageNoOverlapIsNone ==
    (Called("to_image") /\ Len(last.shape) = 2 /\ Outside(Box, last.shape))
        => last.out.kind = "None"

\* C3: cutout on data that the bounding box lies entirely outside returns
\* None, neither a filled array nor a sub-array of data
C3_CutoutNoOverlapIsNone ==
    (Called("cutout") /\ Outside(Box, last.data.shape))
        => last.out.kind = "None"

\* C4: when _overlap_slices reports an overlap, on each axis the local and
\* the target range have the same length and the target range is the local
\* range shifted by the bounding box's minimum on that axis
C4_SlicesAligned ==
    (Called("_overlap_slices") /\ last.out.kind = "slices"
        /\ last.out.small # None)
        => \A axis \in {1, 2} :
              LET lo == IF axis = 1 THEN Box.iymin ELSE Box.ixmin
                  large == last.out.large[axis]
                  small == last.out.small[axis]
              IN  /\ large.stop - large.start = small.stop - small.start
                  /\ large.start = small.start + lo
                  /\ large.stop = small.stop + lo

\* C4 witness: an overlap clipped at the low edge of the target
C4_Witness ==
    /\ Called("_overlap_slices") /\ last.out.small # None
    /\ last.out.small[1].start > 0
    /\ last.out.small[2].stop < Box.ixmax - Box.ixmin

\* the image the mask describes on a target of the given shape
Placed(obj, shape) ==
    [p \in Index(shape[1], shape[2]) |->
        IF /\ obj.bbox.iymin <= p[1] /\ p[1] < obj.bbox.iymax
           /\ obj.bbox.ixmin <= p[2] /\ p[2] < obj.bbox.ixmax
        THEN obj.data.el[<<p[1] - obj.bbox.iymin, p[2] - obj.bbox.ixmin>>]
        ELSE 0]

\* C5: to_image on a shape the bounding box intersects returns an array of
\* exactly that shape holding the mask weights at the box's pixels and 0
\* elsewhere
C5_ToImagePlacesMask ==
    (Called("to_image") /\ Len(last.shape) = 2 /\ ~Outside(Box, last.shape))
        => /\ last.out.kind = "array"
           /\ last.out.arr.shape = last.shape
           /\ last.out.arr.el = Placed(self, last.shape)

\* C5 witness: a partial overlap, clipped at a low and at a high edge
C5_Witness ==
    /\ Called("to_image") /\ Len(last.shape) = 2
    /\ ~Outside(Box, last.shape) /\ ~FullyInside(Box, last.shape)
    /\ Box.iymin < 0 /\ Box.ixmax > last.shape[2]
    /\ last.out.kind = "array"

\* the cutout the mask describes on the given data
Cut(obj, data, fill_value) ==
    [p \in Index(obj.data.shape[1], obj.data.shape[2]) |->
        LET y == p[1] + obj.bbox.iymin
            x == p[2] + obj.bbox.ixmin
        IN  IF 0 <= y /\ y < data.shape[1] /\ 0 <= x /\ x < data.shape[2]
            THEN data.el[<<y, x>>]
            ELSE fill_value]

\* C6: cutout on data the bounding box intersects returns an array of the
\* mask's shape holding data at the pixels inside data and fill_value at
\* the others, whatever the element type of data
C6_CutoutFills ==
    (Called("cutout") /\ ~Outside(Box, last.data.shape))
        => /\ last.out.kind = "array"
           /\ last.out.arr.shape = self.data.shape
           /\ last.out.arr.el = Cut(self, last.data, last.fill)

\* C7: for a bounding box fully inside the target, direct placement and
\* the path through _overlap_slices give the same image, and the direct
\* slice of data and the fill-then-copy path give the same cutout
C7_PathsAgree ==
    /\ (Called("to_image") /\ Len(last.shape) = 2
           /\ FullyInside(Box, last.shape))
          => /\ last.out = Outcome(to_image_direct(self, last.shape))
             /\ last.out = Outcome(to_image_fallback(self, last.shape))
    /\ (Called("cutout") /\ FullyInside(Box, last.data.shape))
          => /\ last.out.arr = cutout_direct(self, last.data)
             /\ last.out = Outcome(cutout_fallback(self, last.data,
                                                   last.fill))

\* C7 witness: a cutout of unit-tagged data by a mask that touches the
\* far edges of the data
C7_Witness ==
    /\ Called("cutout") /\ FullyInside(Box, last.data.shape)
    /\ Box.iymax = last.data.shape[1] /\ Box.ixmax = last.data.shape[2]
    /\ self.data.shape[1] > 1 /\ self.data.shape[2] > 1
    /\ last.data.unit # "none"
    /\ last.out.kind = "array"

\* C8: on a 2-element shape _overlap_slices returns (None, None), without
\* raising, exactly when the four-inequality test holds; a box with
\* ixmax = 1 that overlaps has x ranges of length 1 in both frames
C8_NoOverlapTest ==
    (Called("_overlap_slices") /\ Len(last.shape) = 2)
        => /\ last.out.kind = "slices"
           /\ (last.out.large = None /\ last.out.small = None)
                  <=> Outside(Box, last.shape)
           /\ (last.out.large = None) <=> (last.out.small = None)
           /\ (Box.ixmax = 1 /\ ~Outside(Box, last.shape))
                  => /\ last.out.large[2].stop - last.out.large[2].start = 1
                     /\ last.out.small[2].stop - last.out.small[2].start = 1

\* C8 witness: a box ending exactly at the target's low x edge
C8_Witness ==
    /\ Called("_overlap_slices") /\ Len(last.shape) = 2
    /\ Box.ixmax = 0 /\ Box.iymin >= 0 /\ Box.iymax <= last.shape[1]
    /\ last.out.small = None

C9_Case ==
    /\ Called("_overlap_slices")
    /\ Box = [ixmin |-> -2, ixmax |-> 3, iymin |-> -2, iymax |-> 3]
    /\ last.shape = <<4, 4>>

\* C9 as stated: for the box -2..3 on both axes and the shape (4, 4) the
\* local ranges are (slice(2,4), slice(2,4)) and the target ranges
\* (slice(0,3), slice(0,3))
C9_AsStated ==
    C9_Case => /\ last.out.small = <<slice(2, 4), slice(2, 4)>>
               /\ last.out.large = <<slice(0, 3), slice(0, 3)>>

\* C9 amended: for the box -2..3 on both axes and the shape (4, 4) the
\* local ranges are (slice(2,5), slice(2,5)) and the target ranges
\* (slice(0,3), slice(0,3))
C9_Amended ==
    C9_Case => /\ last.out.small = <<slice(2, 5), slice(2, 5)>>
               /\ last.out.large = <<slice(0, 3), slice(0, 3)>>

\* C9 witness: the call of the example has been made on a 5x5 mask
C9_Witness == C9_Case /\ self.data.shape = <<5, 5>>

\* C10: no call changes the mask's data or bounding box, and a to_image
\* call with the shape of an earlier to_image call has the same outcome
C10_ReadOnly ==
    [][/\ self' = self
       /\ (seen.op = "to_image" /\ last'.op = "to_image"
              /\ last'.shape = seen.shape)
             => last'.out = seen.out]_vars

\* C10 witness: to_image returned an array, other calls followed, and
\* to_image has just been called again with the same shape
C10_Witness ==
    /\ seen.op = "to_image" /\ seen.between /\ seen.again
    /\ seen.out.kind = "array"
    /\ Called("to_image") /\ last.shape = seen.shape

====
